---- MODULE Spec2Model ----
(***************************************************************************)
(* Model of the scraping engine of automation_library:                     *)
(*   core/ui.py                      ScraperWorker, FrameworkGUI           *)
(*   adapters/storage/excel_storage  ExcelStorage                          *)
(* Threads: the GUI thread (start_process, stop_process, the spinbox),     *)
(* the run thread (run_scraping, cleanup), the manager thread              *)
(* (_worker_manager) and one thread per ScraperWorker.  Every action is    *)
(* one atomic step of one thread; the collaborators behind the interfaces  *)
(* (Authenticator.login, Extractor.extract, the file system) answer        *)
(* nondeterministically.                                                   *)
(***************************************************************************)
EXTENDS Integers, Sequences, FiniteSets, TLC

\* ------------------------------------------------------------------ bounds
NumTasks == 2          \* rows of the input sheet that hold a code
MaxThreads == 3        \* thread ids of the model
SpecThreads == 2       \* ScraperWorker threads ever started under Spec
MaxTarget == 2         \* largest value the user gives the Workers spinbox
MaxFails == 1          \* session failures the Extractor raises per task
MaxRuns == 2           \* times the user presses start (resume specification)
ResumeWorkers == 1     \* target workers of the resume specification
StorageWorkers == 1    \* workers of the storage specification
MaxInterval == 2       \* largest configured save_interval
MinBatch == 1          \* the configured login_batch_size
ScenarioTasks == 10    \* the scenario of spec section 8: ten tasks
ScenarioDone == 2      \* ... of which the first two are already persisted
ScenarioWorkers == 2   \* ... target workers
ScenarioInterval == 3  \* ... flush threshold
MaxRecords == 3        \* records an Extractor hands over (records specification)
PoolFirstTarget == 3   \* the target sequence 3, 1, 0 of spec section 8
PoolSecondTarget == 1

\* ------------------------------------------------------- program constants
FirstRow == 2                  \* iter_rows(min_row=2): ids are row numbers >= 2
DefaultBatch == 3              \* engine_settings.login_batch_size default

\* --------------------------------------------------------------- variables
VARIABLES
  \* configuration and input (self.config, the selected input file)
  save_interval,        \* engine_settings.save_interval
  login_batch_size,     \* engine_settings.login_batch_size
  all_valid_tasks,      \* the tasks read from the input sheet, in row order
  thread_cap,           \* threads the model lets the manager start in all
  input_hash,           \* sha256 of the selected input file
  \* FrameworkGUI fields
  num_workers_var,      \* the Workers spinbox (target pool size)
  stop_event,           \* the global stop signal
  tasks_queue,          \* queue.Queue of tasks (FIFO)
  results_queue,        \* queue.Queue of records (FIFO)
  unsaved_data,         \* pending buffer of the run loop
  saved_items_count,
  worker_threads,       \* list of worker thread ids, in start order
  threads_lock,         \* holder of threads_lock: "free", "manager", "cleanup"
  storage,              \* the ExcelStorage object (in memory)
  disk,                 \* the output file as last written by workbook.save
  file_locked,          \* the output file cannot be written: workbook.save raises
  save_raises,          \* save_items raises on the records it is given
  \* threads
  workers,              \* thread id -> ScraperWorker state
  nthreads,             \* ScraperWorker threads started so far
  mpc,                  \* position of the _worker_manager thread
  login_events,         \* the manager's login_events of the current batch
  dpc,                  \* position of the run thread (run_scraping / cleanup)
  active_workers,       \* run_scraping's local active_workers
  user_stopped,         \* stop_process was called in this run
  response,             \* answer to the "continue?" dialog of start_process
  cpc,                  \* position of the _perform_cleanup_and_exit thread
  cbuf,                 \* the buffer that thread's save_data passed to save_items
  \* history (not read by the program)
  h_seeded,             \* tasks put on tasks_queue at seed time
  h_disk_ids,           \* ids in the output file when the store was opened
  h_same_input,         \* the file's stored hash equalled the input hash at open
  h_loaded_ids,         \* ids _load_metadata loaded when the store was opened
  h_pushed,             \* records ever put on results_queue
  h_saved,              \* records passed to a save_items call that returned
  h_consumed,           \* records taken from results_queue by the run loop
  h_save_calls,         \* calls of storage.save_items
  h_fails,              \* task id -> session failures raised so far
  h_attempt,            \* task id -> extract calls started so far
  h_runs                \* times start_process started a run

vars == << save_interval, login_batch_size, all_valid_tasks, thread_cap,
           input_hash,
           num_workers_var, stop_event, tasks_queue, results_queue,
           unsaved_data, saved_items_count, worker_threads, threads_lock,
           storage, disk, file_locked, save_raises, workers, nthreads, mpc,
           login_events,
           dpc, active_workers, user_stopped, response, cpc, cbuf,
           h_seeded, h_disk_ids, h_same_input, h_loaded_ids, h_pushed, h_saved, h_consumed, h_save_calls,
           h_fails, h_attempt, h_runs >>

cfgVars == << save_interval, login_batch_size, all_valid_tasks, thread_cap,
             input_hash, file_locked, save_raises >>
closeVars == << cpc, cbuf >>
histVars == << h_seeded, h_disk_ids, h_same_input, h_loaded_ids, h_pushed, h_saved, h_consumed, h_save_calls,
               h_fails, h_attempt, h_runs >>

\* ------------------------------------------------------------ conversions
Digits == << "0", "1", "2", "3", "4", "5", "6", "7", "8", "9" >>
Comma == ","

\* str(n) for a non-negative integer: its decimal digits
RECURSIVE Str(_)
Str(n) == IF n < 10 THEN << Digits[n + 1] >>
          ELSE Str(n \div 10) \o << Digits[(n % 10) + 1] >>

DigitVal(c) == CHOOSE d \in 0..9 : Digits[d + 1] = c

\* code point order of the characters that occur: "," < "0" < ... < "9"
CharCode(c) == IF c = Comma THEN 0 ELSE 1 + DigitVal(c)

\* Python's str ordering (lexicographic, a proper prefix first)
RECURSIVE LexLess(_, _)
LexLess(a, b) ==
  IF Len(a) = 0 THEN Len(b) > 0
  ELSE IF Len(b) = 0 THEN FALSE
  ELSE IF a[1] = b[1] THEN LexLess(Tail(a), Tail(b))
  ELSE CharCode(a[1]) < CharCode(b[1])

\* sorted(list(S)) for a set of strings: the element at place i has i - 1
\* elements of S before it
SortedList(S) ==
  [i \in 1..Cardinality(S) |->
     CHOOSE x \in S : Cardinality({ y \in S : LexLess(y, x) }) = i - 1]

\* ",".join(l)
RECURSIVE Join(_)
Join(l) == IF Len(l) = 0 THEN << >>
           ELSE IF Len(l) = 1 THEN l[1]
           ELSE l[1] \o << Comma >> \o Join(Tail(l))

\* s.split(','): the list of the pieces between commas ("" gives [""])
RECURSIVE SplitFrom(_, _)
SplitFrom(s, cur) ==
  IF Len(s) = 0 THEN << cur >>
  ELSE IF s[1] = Comma THEN << cur >> \o SplitFrom(Tail(s), << >>)
  ELSE SplitFrom(Tail(s), Append(cur, s[1]))

Split(s) == SplitFrom(s, << >>)

Range(f) == { f[i] : i \in DOMAIN f }

\* F applied to the value of e: e is evaluated once, as an argument is in
\* the program
OnValue(F(_), e) == CHOOSE r \in { F(v) : v \in {e} } : TRUE

Min(a, b) == IF a < b THEN a ELSE b

\* --------------------------------------------------------- faulty variants
\* Plausible faults of definitions below; each property that depends on
\* one of them fails once the fault is put in.
\* save_items that forgets the ids recorded before
SaveOneItemForget(st, item) ==
  [st EXCEPT !.processed_ids = {Str(item.row_num)}]
\* a seed that does not filter by the processed ids
TasksToRunAll(tasks, processed) == tasks
\* a flush test that is late by one record
FlushDueLate(buf) == Len(buf) > save_interval
\* a batch that ignores login_batch_size
BatchSizeUnbounded(current, target) == target - current
\* a store that keeps the first row written for an id
SaveOneItemKeepFirst(st, item) ==
  IF item.row_num = 0 \/ item.row_num \in DOMAIN st.data_sheet THEN st
  ELSE [st EXCEPT
          !.data_sheet = [r \in DOMAIN st.data_sheet \cup {item.row_num} |->
                            IF r = item.row_num THEN item ELSE st.data_sheet[r]],
          !.processed_ids = st.processed_ids \cup {Str(item.row_num)}]

\* a shrink that stops the workers started first
WorkersToStopOldest(threads, target) ==
  { threads[i] : i \in 1 .. (Len(threads) - target) }

\* a drain loop that ends at target 0 without counting the live workers
DrainEndsAtTargetZero(active, target) == target = 0

\* ------------------------------------------------------------ ExcelStorage
NoMeta == [has |-> FALSE, hash |-> "", ids_str |-> << >>]
NoDisk == [exists |-> FALSE, meta |-> NoMeta, rows |-> << >>]
NoStorage == [opened |-> FALSE, input_file_hash |-> "", processed_ids |-> {},
              data_sheet |-> << >>, meta |-> NoMeta]

\* (faulty variant) a _load_metadata that does not compare the hashes
LoadMetadataAnyHash(meta, hash) ==
  IF meta.has /\ meta.ids_str # << >>
  THEN Range(Split(meta.ids_str))
  ELSE {}

\* _load_metadata: the ids of the Metadata sheet, if its hash is this input's
LoadMetadata(meta, hash) ==
  IF meta.has /\ meta.hash = hash /\ meta.ids_str # << >>
  THEN Range(Split(meta.ids_str))
  ELSE {}

\* ExcelStorage(...) followed by open(): load the workbook or create a new one
StorageOpen(d, hash) ==
  [opened |-> TRUE,
   input_file_hash |-> hash,
   processed_ids |-> LoadMetadata(IF d.exists THEN d.meta ELSE NoMeta, hash),
   data_sheet |-> IF d.exists THEN d.rows ELSE << >>,
   meta |-> IF d.exists THEN d.meta ELSE NoMeta]

\* the body of save_items' loop for one item
SaveOneItem(st, item) ==
  IF item.row_num = 0 THEN st          \* "if not task_id: continue"
  ELSE [st EXCEPT
          !.data_sheet = [r \in DOMAIN st.data_sheet \cup {item.row_num} |->
                            IF r = item.row_num THEN item ELSE st.data_sheet[r]],
          !.processed_ids = st.processed_ids \cup {Str(item.row_num)}]

RECURSIVE SaveLoop(_, _)
SaveLoop(st, items) ==
  IF items = << >> THEN st
  ELSE OnValue(LAMBDA next : SaveLoop(next, Tail(items)),
               SaveOneItem(st, Head(items)))

\* _update_metadata: hash and the sorted, comma-joined ids
IdsStr(ids) == Join(SortedList(ids))
UpdateMetadata(st) ==
  [st EXCEPT !.meta = [has |-> TRUE, hash |-> st.input_file_hash,
                       ids_str |-> OnValue(IdsStr, st.processed_ids)]]

\* save_items, the in-memory part
SaveItems(st, items) ==
  IF items = << >> THEN st
  ELSE OnValue(UpdateMetadata, SaveLoop(st, items))

\* workbook.save(output_file): the file after a write that succeeds (ok) or
\* raises (the file is left as it was)
WorkbookSave(st, d, ok) ==
  IF ok THEN [exists |-> TRUE, meta |-> st.meta, rows |-> st.data_sheet] ELSE d

\* ----------------------------------------------------------------- helpers
Task(n) == [row_num |-> n]
RowIds(n) == FirstRow .. (FirstRow + n - 1)
InputTasks(n) == [i \in 1..n |-> Task(FirstRow + i - 1)]
Record(t, k) == [row_num |-> t.row_num, attempt |-> k]

NoWorker == [pc |-> "unborn", driver |-> FALSE, task |-> 0, stop |-> FALSE,
             login_event |-> FALSE]
ThreadIds == 1..MaxThreads

IsAlive(w) == workers[w].pc \notin {"unborn", "dead"}
Stopped(w) == workers[w].stop

RECURSIVE SelectSeq2(_, _)
SelectSeq2(s, keep) ==
  IF s = << >> THEN << >>
  ELSE IF Head(s) \in keep THEN << Head(s) >> \o SelectSeq2(Tail(s), keep)
  ELSE SelectSeq2(Tail(s), keep)

AliveSet == { w \in ThreadIds : IsAlive(w) }
\* [t for t in self.worker_threads if t.is_alive()]
AliveThreads == SelectSeq2(worker_threads, AliveSet)

\* tasks_to_run of run_scraping
RECURSIVE TasksToRun(_, _)
TasksToRun(tasks, processed) ==
  IF tasks = << >> THEN << >>
  ELSE IF Str(Head(tasks).row_num) \notin processed
       THEN << Head(tasks) >> \o TasksToRun(Tail(tasks), processed)
       ELSE TasksToRun(Tail(tasks), processed)

\* len(self.unsaved_data) >= save_interval
FlushDue(buf) == Len(buf) >= save_interval

\* batch_size = min(needed, login_batch_size)
BatchSize(current, target) == Min(target - current, login_batch_size)

\* self.worker_threads[target_workers:]
WorkersToStop(threads, target) ==
  { threads[i] : i \in (target + 1) .. Len(threads) }

\* -------------------------------------------------------------------- Init
InputHashes == {"h1", "h2"}

InitWith(k, b, n, cap, target, d) ==
  /\ save_interval = k
  /\ login_batch_size = b
  /\ all_valid_tasks = InputTasks(n)
  /\ thread_cap = cap
  /\ input_hash = "h1"
  /\ num_workers_var = target
  /\ stop_event = FALSE
  /\ tasks_queue = << >>
  /\ results_queue = << >>
  /\ unsaved_data = << >>
  /\ saved_items_count = 0
  /\ worker_threads = << >>
  /\ threads_lock = "free"
  /\ storage = NoStorage
  /\ disk = d
  /\ file_locked = FALSE
  /\ save_raises = FALSE
  /\ workers = [w \in ThreadIds |-> NoWorker]
  /\ nthreads = 0
  /\ mpc = "off"
  /\ login_events = {}
  /\ dpc = "idle"
  /\ active_workers = 0
  /\ user_stopped = FALSE
  /\ response = "none"
  /\ cpc = "off"
  /\ cbuf = << >>
  /\ h_seeded = {}
  /\ h_disk_ids = {}
  /\ h_same_input = FALSE
  /\ h_loaded_ids = {}
  /\ h_pushed = {}
  /\ h_saved = {}
  /\ h_consumed = 0
  /\ h_save_calls = 0
  /\ h_fails = [t \in RowIds(n) |-> 0]
  /\ h_attempt = [t \in RowIds(n) |-> 0]
  /\ h_runs = 0

Init ==
  InitWith(MaxInterval, MinBatch, NumTasks, SpecThreads, MaxTarget, NoDisk)

\* ------------------------------------------------------------ GUI thread
\* the ids in the Metadata sheet of the output file, whatever its hash
DiskIds(d) == IF d.exists THEN LoadMetadata(d.meta, d.meta.hash) ELSE {}

\* start_process: open the store, ask whether to continue, start the run thread
StartProcessBody(answers) ==
  LET st0 == StorageOpen(disk, input_hash)
  IN /\ dpc \in {"idle", "done"}
     /\ \E resp \in IF st0.processed_ids # {} THEN answers ELSE {"none"} :
          /\ IF resp = "cancel"
             THEN \* self.storage.close(); return
                  /\ storage' = UpdateMetadata(st0)
                  /\ disk' = WorkbookSave(storage', disk, ~file_locked)
                  /\ dpc' = dpc
                  /\ UNCHANGED << saved_items_count, stop_event, user_stopped,
                                  response, h_disk_ids, h_same_input,
                                  h_loaded_ids, h_runs, h_pushed, h_saved,
                                  h_consumed, h_save_calls >>
             ELSE /\ storage' = IF resp = "no"
                                THEN [st0 EXCEPT !.processed_ids = {}]
                                ELSE st0
                  /\ saved_items_count' = Cardinality(storage'.processed_ids)
                  /\ stop_event' = FALSE
                  /\ user_stopped' = FALSE
                  /\ dpc' = "seed"
                  /\ response' = resp
                  /\ h_disk_ids' = DiskIds(disk)
                  /\ h_same_input' = (disk.exists /\ disk.meta.hash = input_hash)
                  /\ h_loaded_ids' = st0.processed_ids
                  /\ h_runs' = h_runs + 1
                  /\ h_pushed' = {}
                  /\ h_saved' = {}
                  /\ h_consumed' = 0
                  /\ h_save_calls' = 0
                  /\ UNCHANGED disk
     /\ UNCHANGED << cfgVars, closeVars, num_workers_var, tasks_queue, results_queue,
                     unsaved_data, worker_threads, threads_lock, workers,
                     nthreads, mpc, login_events, active_workers,
                     h_seeded, h_fails, h_attempt >>

\* the first press of "INICIAR PROCESSAMENTO"
Answers == {"yes", "no", "cancel"}
StartProcess == h_runs = 0 /\ dpc = "idle" /\ StartProcessBody(Answers)

\* a later press, once the earlier run has ended and its threads are gone
StartAgain ==
  /\ h_runs > 0 /\ h_runs < MaxRuns
  /\ dpc = "done"
  /\ mpc = "done"
  /\ AliveSet = {}
  /\ StartProcessBody(Answers)

\* select_input_file between two runs: another input file, another hash
SelectInputFile ==
  /\ dpc = "done"
  /\ h_runs < MaxRuns
  /\ \E h \in InputHashes \ {input_hash} : input_hash' = h
  /\ UNCHANGED << closeVars, save_interval, login_batch_size, all_valid_tasks,
                  thread_cap, file_locked, save_raises, num_workers_var, stop_event, tasks_queue, results_queue,
                  unsaved_data, saved_items_count, worker_threads, threads_lock,
                  storage, disk, workers, nthreads, mpc, login_events, dpc,
                  active_workers, user_stopped, response, histVars >>

\* the Workers spinbox set to v
SetTargetTo(v) ==
  /\ dpc \notin {"idle", "done"}
  /\ v # num_workers_var
  /\ num_workers_var' = v
  /\ UNCHANGED << cfgVars, closeVars, stop_event, tasks_queue, results_queue,
                  unsaved_data, saved_items_count, worker_threads, threads_lock,
                  storage, disk, workers, nthreads, mpc, login_events, dpc,
                  active_workers, user_stopped, response, histVars >>

SetTarget == \E v \in 0..MaxTarget : SetTargetTo(v)

\* stop_process: "PARAR E SALVAR"
StopProcess ==
  /\ dpc \notin {"idle", "done"}
  /\ ~stop_event
  /\ stop_event' = TRUE
  /\ user_stopped' = TRUE
  /\ UNCHANGED << cfgVars, closeVars, num_workers_var, tasks_queue, results_queue,
                  unsaved_data, saved_items_count, worker_threads, threads_lock,
                  storage, disk, workers, nthreads, mpc, login_events, dpc,
                  active_workers, response, histVars >>

\* --------------------------------------------------------- manager thread
\* "while not self.stop_event.is_set()" (after the 2 s sleep)
ManagerCheck ==
  /\ mpc = "loop"
  /\ mpc' = IF stop_event THEN "stopall" ELSE "reconcile"
  /\ UNCHANGED << cfgVars, closeVars, num_workers_var, stop_event, tasks_queue,
                  results_queue, unsaved_data, saved_items_count,
                  worker_threads, threads_lock, storage, disk, workers,
                  nthreads, login_events, dpc, active_workers, user_stopped,
                  response, histVars >>

\* the ids of the batch of new threads
NewThreads(batch) == (nthreads + 1) .. (nthreads + batch)

\* the loop body when current_workers < target_workers: start one batch and
\* keep threads_lock while waiting for its login events
ManagerGrow ==
  /\ mpc = "reconcile"
  /\ threads_lock = "free"
  /\ LET alive == AliveThreads
         current == Len(alive)
         batch == BatchSize(current, num_workers_var)
         new == NewThreads(batch)
     IN /\ current < num_workers_var
        /\ nthreads + batch <= thread_cap
        /\ workers' = [w \in ThreadIds |->
                         IF w \in new THEN [NoWorker EXCEPT !.pc = "login"]
                         ELSE workers[w]]
        /\ worker_threads' = alive \o [i \in 1..batch |-> nthreads + i]
        /\ nthreads' = nthreads + batch
        /\ login_events' = new
        /\ threads_lock' = "manager"
        /\ mpc' = "wait"
  /\ UNCHANGED << cfgVars, closeVars, num_workers_var, stop_event, tasks_queue,
                  results_queue, unsaved_data, saved_items_count, storage,
                  disk, dpc, active_workers, user_stopped, response,
                  histVars >>

\* (faulty variant) a manager that does not wait for the batch's events
ManagerBatchDoneEarly ==
  /\ mpc = "wait"
  /\ login_events' = {}
  /\ threads_lock' = "free"
  /\ mpc' = "loop"
  /\ UNCHANGED << cfgVars, closeVars, num_workers_var, stop_event, tasks_queue,
                  results_queue, unsaved_data, saved_items_count,
                  worker_threads, storage, disk, workers, nthreads, dpc,
                  active_workers, user_stopped, response, histVars >>

\* "for event in login_events: event.wait()", then the lock is released
ManagerBatchDone ==
  /\ mpc = "wait"
  /\ \A w \in login_events : workers[w].login_event
  /\ login_events' = {}
  /\ threads_lock' = "free"
  /\ mpc' = "loop"
  /\ UNCHANGED << cfgVars, closeVars, num_workers_var, stop_event, tasks_queue,
                  results_queue, unsaved_data, saved_items_count,
                  worker_threads, storage, disk, workers, nthreads, dpc,
                  active_workers, user_stopped, response, histVars >>

\* the loop body when current_workers >= target_workers: prune, and set the
\* stop flag of the threads beyond the target
ManagerShrink ==
  /\ mpc = "reconcile"
  /\ threads_lock = "free"
  /\ LET alive == AliveThreads
         stop == WorkersToStop(alive, num_workers_var)
     IN /\ Len(alive) >= num_workers_var
        /\ worker_threads' = alive
        /\ workers' = [w \in ThreadIds |->
                         IF w \in stop THEN [workers[w] EXCEPT !.stop = TRUE]
                         ELSE workers[w]]
  /\ mpc' = "loop"
  /\ UNCHANGED << cfgVars, closeVars, num_workers_var, stop_event, tasks_queue,
                  results_queue, unsaved_data, saved_items_count, threads_lock,
                  storage, disk, nthreads, login_events, dpc, active_workers,
                  user_stopped, response, histVars >>

\* after the loop: "for worker in self.worker_threads: worker.stop()"
\* (the flag of a thread that has ended is never read: the model leaves it)
ManagerStopAll ==
  /\ mpc = "stopall"
  /\ threads_lock = "free"
  /\ workers' = [w \in ThreadIds |->
                   IF w \in Range(worker_threads) \cap AliveSet
                   THEN [workers[w] EXCEPT !.stop = TRUE] ELSE workers[w]]
  /\ mpc' = "done"
  /\ UNCHANGED << cfgVars, closeVars, num_workers_var, stop_event, tasks_queue,
                  results_queue, unsaved_data, saved_items_count,
                  worker_threads, threads_lock, storage, disk, nthreads,
                  login_events, dpc, active_workers, user_stopped, response,
                  histVars >>

\* ---------------------------------------------------------- worker threads
SetWorker(w, r) == workers' = [workers EXCEPT ![w] = r]

WorkerFrame ==
  UNCHANGED << cfgVars, closeVars, num_workers_var, stop_event, unsaved_data,
               saved_items_count, worker_threads, threads_lock, storage, disk,
               nthreads, mpc, login_events, dpc, active_workers, user_stopped,
               response, h_seeded, h_disk_ids, h_same_input, h_loaded_ids, h_saved,
               h_consumed, h_save_calls, h_runs >>

\* run(): login() returned a session; login_event.set(); enter the loop
WorkerLoginOk(w) ==
  /\ workers[w].pc = "login"
  /\ SetWorker(w, [workers[w] EXCEPT !.pc = "loop", !.driver = TRUE,
                                     !.login_event = TRUE])
  /\ UNCHANGED << tasks_queue, results_queue, h_pushed, h_fails, h_attempt >>
  /\ WorkerFrame

\* run(): login() returned no session; login_event.set(); return
WorkerLoginNone(w) ==
  /\ workers[w].pc = "login"
  /\ SetWorker(w, [workers[w] EXCEPT !.pc = "dead", !.login_event = TRUE,
                                     !.stop = FALSE])
  /\ UNCHANGED << tasks_queue, results_queue, h_pushed, h_fails, h_attempt >>
  /\ WorkerFrame

\* run(): login() raised; "except Exception" logs, "finally" ends the thread
\* (login_event.set() is not reached)
WorkerLoginRaise(w) ==
  /\ workers[w].pc = "login"
  /\ SetWorker(w, [workers[w] EXCEPT !.pc = "dead", !.stop = FALSE])
  /\ UNCHANGED << tasks_queue, results_queue, h_pushed, h_fails, h_attempt >>
  /\ WorkerFrame

\* (faulty variant) a worker that ends when it finds the queue empty
WorkerExitOnEmpty(w) ==
  /\ workers[w].pc = "loop"
  /\ stop_event \/ Stopped(w) \/ tasks_queue = << >>
  /\ SetWorker(w, [workers[w] EXCEPT !.pc = "dead", !.driver = FALSE,
                                     !.stop = FALSE])
  /\ UNCHANGED << tasks_queue, results_queue, h_pushed, h_fails, h_attempt >>
  /\ WorkerFrame

\* (faulty variant) a worker that ends without logging its driver out
WorkerExitNoLogout(w) ==
  /\ workers[w].pc = "loop"
  /\ stop_event \/ Stopped(w)
  /\ SetWorker(w, [workers[w] EXCEPT !.pc = "dead", !.stop = FALSE])
  /\ UNCHANGED << tasks_queue, results_queue, h_pushed, h_fails, h_attempt >>
  /\ WorkerFrame

\* the loop guard fails: leave the loop, "finally" logs the driver out
WorkerExit(w) ==
  /\ workers[w].pc = "loop"
  /\ stop_event \/ Stopped(w)
  /\ SetWorker(w, [workers[w] EXCEPT !.pc = "dead", !.driver = FALSE,
                                     !.stop = FALSE])
  /\ UNCHANGED << tasks_queue, results_queue, h_pushed, h_fails, h_attempt >>
  /\ WorkerFrame

\* task = self.task_queue.get(timeout=1) with a task in the queue
\* (on queue.Empty the worker loops: no change of state)
WorkerGetTask(w) ==
  /\ workers[w].pc = "loop"
  /\ ~stop_event /\ ~Stopped(w)
  /\ tasks_queue # << >>
  /\ LET t == Head(tasks_queue)
     IN /\ SetWorker(w, [workers[w] EXCEPT !.pc = "extract",
                                           !.task = t.row_num])
        /\ h_attempt' = [h_attempt EXCEPT ![t.row_num] = @ + 1]
  /\ tasks_queue' = Tail(tasks_queue)
  /\ UNCHANGED << results_queue, h_pushed, h_fails >>
  /\ WorkerFrame

\* (faulty variant) a worker that drops the record when a stop signal is set
WorkerExtractOkUnlessStopped(w) ==
  /\ workers[w].pc = "extract"
  /\ LET data == Record(Task(workers[w].task), h_attempt[workers[w].task])
     IN IF stop_event \/ Stopped(w)
        THEN UNCHANGED << results_queue, h_pushed >>
        ELSE /\ results_queue' = Append(results_queue, data)
             /\ h_pushed' = h_pushed \cup {data}
  /\ SetWorker(w, [workers[w] EXCEPT !.pc = "loop", !.task = 0])
  /\ UNCHANGED << tasks_queue, h_fails, h_attempt >>
  /\ WorkerFrame

\* extract returned a record: results_queue.put(data)
WorkerExtractOk(w) ==
  /\ workers[w].pc = "extract"
  /\ LET data == Record(Task(workers[w].task), h_attempt[workers[w].task])
     IN /\ results_queue' = Append(results_queue, data)
        /\ h_pushed' = h_pushed \cup {data}
  /\ SetWorker(w, [workers[w] EXCEPT !.pc = "loop", !.task = 0])
  /\ UNCHANGED << tasks_queue, h_fails, h_attempt >>
  /\ WorkerFrame

\* (faulty variant) a session failure handled without the requeue
WorkerSessionFailDropsTask(w) ==
  /\ workers[w].pc = "extract"
  /\ h_fails[workers[w].task] < MaxFails
  /\ h_fails' = [h_fails EXCEPT ![workers[w].task] = @ + 1]
  /\ SetWorker(w, [workers[w] EXCEPT !.pc = "relogin_wait", !.driver = FALSE,
                                     !.task = 0])
  /\ UNCHANGED << tasks_queue, results_queue, h_pushed, h_attempt >>
  /\ WorkerFrame

\* extract raised WebDriverException / TimeoutException: requeue the task,
\* log the driver out, go to the re-login loop
WorkerExtractSessionFail(w) ==
  /\ workers[w].pc = "extract"
  /\ h_fails[workers[w].task] < MaxFails
  /\ tasks_queue' = Append(tasks_queue, Task(workers[w].task))
  /\ h_fails' = [h_fails EXCEPT ![workers[w].task] = @ + 1]
  /\ SetWorker(w, [workers[w] EXCEPT !.pc = "relogin_wait", !.driver = FALSE,
                                     !.task = 0])
  /\ UNCHANGED << results_queue, h_pushed, h_attempt >>
  /\ WorkerFrame

\* extract raised another exception: the inner try has no handler for it, the
\* outer "except Exception" logs it and the thread ends (finally: logout)
WorkerExtractError(w) ==
  /\ workers[w].pc = "extract"
  /\ SetWorker(w, [workers[w] EXCEPT !.pc = "dead", !.driver = FALSE,
                                     !.task = 0, !.stop = FALSE])
  /\ UNCHANGED << tasks_queue, results_queue, h_pushed, h_fails, h_attempt >>
  /\ WorkerFrame

\* the guard of the re-login loop holds: call login()
WorkerReloginEnter(w) ==
  /\ workers[w].pc = "relogin_wait"
  /\ ~stop_event /\ ~Stopped(w)
  /\ SetWorker(w, [workers[w] EXCEPT !.pc = "relogin"])
  /\ UNCHANGED << tasks_queue, results_queue, h_pushed, h_fails, h_attempt >>
  /\ WorkerFrame

\* the guard of the re-login loop fails on a stop signal: "continue"
WorkerReloginGiveUp(w) ==
  /\ workers[w].pc = "relogin_wait"
  /\ stop_event \/ Stopped(w)
  /\ SetWorker(w, [workers[w] EXCEPT !.pc = "loop"])
  /\ UNCHANGED << tasks_queue, results_queue, h_pushed, h_fails, h_attempt >>
  /\ WorkerFrame

\* the re-login returned a session: back to the extract loop
WorkerReloginOk(w) ==
  /\ workers[w].pc = "relogin"
  /\ SetWorker(w, [workers[w] EXCEPT !.pc = "loop", !.driver = TRUE])
  /\ UNCHANGED << tasks_queue, results_queue, h_pushed, h_fails, h_attempt >>
  /\ WorkerFrame

\* the re-login returned no session: time.sleep(30), test the guard again
WorkerReloginNone(w) ==
  /\ workers[w].pc = "relogin"
  /\ SetWorker(w, [workers[w] EXCEPT !.pc = "relogin_wait"])
  /\ UNCHANGED << tasks_queue, results_queue, h_pushed, h_fails, h_attempt >>
  /\ WorkerFrame

\* the re-login raised: the exception leaves the handler, the thread ends
WorkerReloginRaise(w) ==
  /\ workers[w].pc = "relogin"
  /\ SetWorker(w, [workers[w] EXCEPT !.pc = "dead", !.stop = FALSE])
  /\ UNCHANGED << tasks_queue, results_queue, h_pushed, h_fails, h_attempt >>
  /\ WorkerFrame

\* -------------------------------------------------------------- run thread
DispFrame ==
  UNCHANGED << cfgVars, closeVars, num_workers_var, worker_threads, workers, nthreads,
               mpc, login_events, user_stopped, response, h_seeded,
               h_disk_ids, h_same_input, h_loaded_ids, h_pushed, h_fails, h_attempt,
               h_runs >>

\* (faulty variant) a save_data that empties the buffer whatever save_items
\* did
SaveDataDiscard(buf, ok) ==
  /\ unsaved_data' = << >>
  /\ IF buf = << >> \/ save_raises
     THEN /\ h_save_calls' = h_save_calls + (IF buf = << >> THEN 0 ELSE 1)
          /\ UNCHANGED << storage, disk, saved_items_count, h_saved >>
     ELSE /\ storage' = SaveItems(storage, buf)
          /\ h_saved' = h_saved \cup Range(buf)
          /\ disk' = WorkbookSave(storage', disk, ok)
          /\ saved_items_count' = saved_items_count + Len(buf)
          /\ h_save_calls' = h_save_calls + 1

\* save_data() on the buffer buf; ok: whether workbook.save succeeds (its
\* exception is swallowed inside save_items).  When save_items raises, on
\* the item after the first j, "except Exception" keeps the buffer.
SaveData(buf, ok) ==
  IF buf = << >>
  THEN /\ unsaved_data' = buf
       /\ UNCHANGED << storage, disk, saved_items_count, h_save_calls,
                       h_saved >>
  ELSE IF save_raises
  THEN /\ \E j \in 0 .. (Len(buf) - 1) :
            storage' = SaveLoop(storage, SubSeq(buf, 1, j))
       /\ unsaved_data' = buf
       /\ h_save_calls' = h_save_calls + 1
       /\ UNCHANGED << disk, saved_items_count, h_saved >>
  ELSE /\ storage' = SaveItems(storage, buf)
       /\ h_saved' = h_saved \cup Range(buf)
       /\ disk' = WorkbookSave(storage', disk, ok)
       /\ saved_items_count' = saved_items_count + Len(buf)
       /\ unsaved_data' = << >>
       /\ h_save_calls' = h_save_calls + 1

\* run_scraping up to the loop: new queues, the seed, the manager thread
RunScrapingSeed ==
  /\ dpc = "seed"
  /\ tasks_queue' = TasksToRun(all_valid_tasks, storage.processed_ids)
  /\ results_queue' = << >>
  /\ h_seeded' = { tasks_queue'[i].row_num : i \in DOMAIN tasks_queue' }
  /\ mpc' = "loop"
  /\ login_events' = {}
  /\ dpc' = "loop"
  /\ UNCHANGED << cfgVars, closeVars, num_workers_var, stop_event, unsaved_data,
                  saved_items_count, worker_threads, threads_lock, storage,
                  disk, workers, nthreads, active_workers, user_stopped,
                  response, h_disk_ids, h_same_input, h_loaded_ids, h_pushed, h_saved, h_consumed,
                  h_save_calls, h_fails, h_attempt, h_runs >>

\* "while not self.stop_event.is_set()" fails: leave the loop
DispLoopExit ==
  /\ dpc = "loop"
  /\ stop_event
  /\ dpc' = "afterLoop"
  /\ UNCHANGED << stop_event, tasks_queue, results_queue, unsaved_data,
                  saved_items_count, threads_lock, storage, disk,
                  active_workers, h_consumed, h_save_calls, h_saved >>
  /\ DispFrame

\* results_queue.get returned a record: append it, flush when due
DispGet ==
  /\ dpc = "loop"
  /\ ~stop_event
  /\ results_queue # << >>
  /\ results_queue' = Tail(results_queue)
  /\ h_consumed' = h_consumed + 1
  /\ LET buf == Append(unsaved_data, Head(results_queue))
     IN IF FlushDue(buf)
        THEN SaveData(buf, ~file_locked)
        ELSE /\ unsaved_data' = buf
             /\ UNCHANGED << storage, disk, saved_items_count, h_save_calls,
                             h_saved >>
  /\ dpc' = "status"
  /\ UNCHANGED << stop_event, tasks_queue, threads_lock, active_workers >>
  /\ DispFrame

\* "with self.threads_lock: active_workers = ..." for the status line: the
\* run thread needs the lock; the count only goes to the status text
DispStatus ==
  /\ dpc = "status"
  /\ threads_lock = "free"
  /\ dpc' = "loop"
  /\ UNCHANGED << stop_event, tasks_queue, results_queue, unsaved_data,
                  saved_items_count, threads_lock, storage, disk,
                  active_workers, h_consumed, h_save_calls, h_saved >>
  /\ DispFrame

\* results_queue.get timed out: queue.Empty
DispEmpty ==
  /\ dpc = "loop"
  /\ ~stop_event
  /\ results_queue = << >>
  /\ dpc' = "empty"
  /\ UNCHANGED << stop_event, tasks_queue, results_queue, unsaved_data,
                  saved_items_count, threads_lock, storage, disk,
                  active_workers, h_consumed, h_save_calls, h_saved >>
  /\ DispFrame

\* "if self.tasks_queue.empty()", else sleep and loop
DispEmptyCheck ==
  /\ dpc = "empty"
  /\ dpc' = IF tasks_queue = << >> THEN "count" ELSE "loop"
  /\ UNCHANGED << stop_event, tasks_queue, results_queue, unsaved_data,
                  saved_items_count, threads_lock, storage, disk,
                  active_workers, h_consumed, h_save_calls, h_saved >>
  /\ DispFrame

\* "with self.threads_lock: active_workers = len([... is_alive()])"
DispCount ==
  /\ dpc = "count"
  /\ threads_lock = "free"
  /\ active_workers' = Cardinality(Range(worker_threads) \cap AliveSet)
  /\ dpc' = "target"
  /\ UNCHANGED << stop_event, tasks_queue, results_queue, unsaved_data,
                  saved_items_count, threads_lock, storage, disk, h_consumed,
                  h_save_calls, h_saved >>
  /\ DispFrame

\* the loop ends when no worker is active and the target is 0
DrainEnds(active, target) == active = 0 /\ target = 0

\* target_workers = self.num_workers_var.get(); break, or sleep and loop
DispTarget ==
  /\ dpc = "target"
  /\ dpc' = IF DrainEnds(active_workers, num_workers_var)
            THEN "afterLoop" ELSE "loop"
  /\ active_workers' = 0        \* the local is dead after this test
  /\ UNCHANGED << stop_event, tasks_queue, results_queue, unsaved_data,
                  saved_items_count, threads_lock, storage, disk,
                  h_consumed, h_save_calls, h_saved >>
  /\ DispFrame

\* (faulty variant) an exception that ends the run thread with no cleanup
DispExceptionNoCleanup ==
  /\ dpc = "status"
  /\ dpc' = "done"
  /\ UNCHANGED << stop_event, tasks_queue, results_queue, unsaved_data,
                  saved_items_count, threads_lock, storage, disk,
                  active_workers, h_consumed, h_save_calls, h_saved >>
  /\ DispFrame

\* a statement of the loop body raises (the status update calls Tk from the
\* run thread): "except Exception" logs it, "finally" runs cleanup(); the
\* flush after the loop is skipped
DispException ==
  /\ dpc = "status"
  /\ dpc' = "cleanup"
  /\ UNCHANGED << stop_event, tasks_queue, results_queue, unsaved_data,
                  saved_items_count, threads_lock, storage, disk,
                  active_workers, h_consumed, h_save_calls, h_saved >>
  /\ DispFrame

\* after the loop: "if self.unsaved_data: self.save_data()"
DispAfterLoop ==
  /\ dpc = "afterLoop"
  /\ SaveData(unsaved_data, ~file_locked)
  /\ dpc' = "cleanup"
  /\ UNCHANGED << stop_event, tasks_queue, results_queue, threads_lock,
                  active_workers, h_consumed >>
  /\ DispFrame

\* cleanup(): set the global stop signal
CleanupSetStop ==
  /\ dpc = "cleanup"
  /\ stop_event' = TRUE
  /\ dpc' = "join"
  /\ UNCHANGED << tasks_queue, results_queue, unsaved_data, saved_items_count,
                  threads_lock, storage, disk, active_workers, h_consumed,
                  h_save_calls, h_saved >>
  /\ DispFrame

\* (faulty variant) a cleanup that joins without taking threads_lock
CleanupJoinNoLock ==
  /\ dpc = "join"
  /\ dpc' = "joining"
  /\ UNCHANGED << stop_event, tasks_queue, results_queue, unsaved_data,
                  saved_items_count, threads_lock, storage, disk,
                  active_workers, h_consumed, h_save_calls, h_saved >>
  /\ DispFrame

\* cleanup(): "with self.threads_lock:" acquired, the joins begin
CleanupJoinStart ==
  /\ dpc = "join"
  /\ threads_lock = "free"
  /\ threads_lock' = "cleanup"
  /\ dpc' = "joining"
  /\ UNCHANGED << stop_event, tasks_queue, results_queue, unsaved_data,
                  saved_items_count, storage, disk, active_workers,
                  h_consumed, h_save_calls, h_saved >>
  /\ DispFrame

\* cleanup(): every join(timeout=5) has returned (the thread ended or the
\* timeout passed), the lock is released
CleanupJoinEnd ==
  /\ dpc = "joining"
  /\ threads_lock' = "free"
  /\ dpc' = "flush"
  /\ UNCHANGED << stop_event, tasks_queue, results_queue, unsaved_data,
                  saved_items_count, storage, disk, active_workers,
                  h_consumed, h_save_calls, h_saved >>
  /\ DispFrame

\* (faulty variant) a cleanup that closes the store without the flush
CleanupNoFlush ==
  /\ dpc = "flush"
  /\ dpc' = "close"
  /\ UNCHANGED << stop_event, tasks_queue, results_queue, unsaved_data,
                  saved_items_count, threads_lock, storage, disk,
                  active_workers, h_consumed, h_save_calls, h_saved >>
  /\ DispFrame

\* cleanup(): "if getattr(self, 'unsaved_data', None): self.save_data()"
CleanupFlush ==
  /\ dpc = "flush"
  /\ SaveData(unsaved_data, ~file_locked)
  /\ dpc' = "close"
  /\ UNCHANGED << stop_event, tasks_queue, results_queue, threads_lock,
                  active_workers, h_consumed >>
  /\ DispFrame

\* cleanup(): self.storage.close() (its exception is swallowed); the run
\* thread ends
CleanupClose ==
  /\ dpc = "close"
  /\ storage' = UpdateMetadata(storage)
  /\ disk' = WorkbookSave(storage', disk, ~file_locked)
  /\ dpc' = "done"
  /\ UNCHANGED << stop_event, tasks_queue, results_queue, unsaved_data,
                  saved_items_count, threads_lock, active_workers, h_consumed,
                  h_save_calls, h_saved >>
  /\ DispFrame

\* run_scraping's finally, after cleanup() has returned:
\* final_status = "Concluído" if not self.stop_event.is_set() else "Interrompido"
FinalStatus(stopped) == IF ~stopped THEN "Concluído" ELSE "Interrompido"

\* ------------------------------------------------------------------- Next
WorkerNext ==
  \E w \in ThreadIds :
    \/ WorkerLoginOk(w)
    \/ WorkerLoginNone(w)
    \/ WorkerLoginRaise(w)
    \/ WorkerExit(w)
    \/ WorkerGetTask(w)
    \/ WorkerExtractOk(w)
    \/ WorkerExtractSessionFail(w)
    \/ WorkerExtractError(w)
    \/ WorkerReloginEnter(w)
    \/ WorkerReloginGiveUp(w)
    \/ WorkerReloginOk(w)
    \/ WorkerReloginNone(w)
    \/ WorkerReloginRaise(w)

ManagerNext ==
  \/ ManagerCheck
  \/ ManagerGrow
  \/ ManagerBatchDone
  \/ ManagerShrink
  \/ ManagerStopAll

RunNext ==
  \/ RunScrapingSeed
  \/ DispLoopExit
  \/ DispGet
  \/ DispStatus
  \/ DispEmpty
  \/ DispEmptyCheck
  \/ DispCount
  \/ DispTarget
  \/ DispAfterLoop
  \/ CleanupSetStop
  \/ CleanupJoinStart
  \/ CleanupJoinEnd
  \/ CleanupFlush
  \/ CleanupClose

Next ==
  \/ StartProcess
  \/ SetTarget
  \/ StopProcess
  \/ ManagerNext
  \/ WorkerNext
  \/ RunNext
  \/ DispException

Spec == Init /\ [][Next]_vars

\* ------------------------------------------------ resume: run after run
\* The same program, started again after a run has ended (the start button is
\* enabled again in run_scraping's finally).  The target stays as configured:
\* a run ends by stop_process.
ResumeInit ==
  InitWith(MaxInterval, MinBatch, NumTasks, MaxThreads, ResumeWorkers, NoDisk)

ResumeNext ==
  \/ StartProcess
  \/ StartAgain
  \/ SelectInputFile
  \/ StopProcess
  \/ ManagerNext
  \/ WorkerNext
  \/ RunNext

ResumeSpec == ResumeInit /\ [][ResumeNext]_vars

\* ------------------------------------- storage: a store that can fail
\* One run with one worker, in which the output file can be locked by
\* another program (workbook.save raises) and save_items can raise on the
\* records it is given, at any time.
StorageInit ==
  InitWith(MaxInterval, MinBatch, NumTasks, StorageWorkers, StorageWorkers,
           NoDisk)

FileLockToggle ==
  /\ file_locked' = ~file_locked
  /\ UNCHANGED << closeVars, save_interval, login_batch_size, all_valid_tasks,
                  thread_cap, input_hash, save_raises, num_workers_var,
                  stop_event, tasks_queue, results_queue, unsaved_data,
                  saved_items_count, worker_threads, threads_lock, storage,
                  disk, workers, nthreads, mpc, login_events, dpc,
                  active_workers, user_stopped, response, histVars >>

SaveFaultToggle ==
  /\ save_raises' = ~save_raises
  /\ UNCHANGED << closeVars, save_interval, login_batch_size, all_valid_tasks,
                  thread_cap, input_hash, file_locked, num_workers_var,
                  stop_event, tasks_queue, results_queue, unsaved_data,
                  saved_items_count, worker_threads, threads_lock, storage,
                  disk, workers, nthreads, mpc, login_events, dpc,
                  active_workers, user_stopped, response, histVars >>

StorageNext ==
  \/ Next
  \/ FileLockToggle
  \/ SaveFaultToggle

StorageSpec == StorageInit /\ [][StorageNext]_vars

\* ------------------------------- close: the window closed during a run
\* on_closing (the WM_DELETE_WINDOW handler, answered "ok") calls
\* stop_process and starts a thread that runs cleanup(), while the run
\* thread goes on to its own after-loop flush and cleanup().  save_data and
\* storage.close() of that thread are two steps each (entered, returned), so
\* that what the run thread does in between is visible.
CloseWorkers == 1

CloseInit ==
  InitWith(MaxInterval, MinBatch, NumTasks, CloseWorkers, CloseWorkers, NoDisk)

CloserFrame ==
  UNCHANGED << cfgVars, num_workers_var, tasks_queue, results_queue,
               worker_threads, workers, nthreads, mpc, login_events, dpc,
               active_workers, response, h_seeded, h_disk_ids, h_same_input,
               h_loaded_ids, h_pushed, h_consumed, h_fails, h_attempt,
               h_runs >>

\* on_closing: stop_process(), then Thread(_perform_cleanup_and_exit).start()
OnClosing ==
  /\ cpc = "off"
  /\ dpc \notin {"idle", "done"}
  /\ stop_event' = TRUE
  /\ user_stopped' = TRUE
  /\ cpc' = "cleanup"
  /\ UNCHANGED << cbuf, unsaved_data, saved_items_count, threads_lock,
                  storage, disk, h_saved, h_save_calls >>
  /\ CloserFrame

\* cleanup() of the closing thread: the stop signal is set already; take
\* threads_lock and join the live workers
CloserJoinStart ==
  /\ cpc = "cleanup"
  /\ threads_lock = "free"
  /\ threads_lock' = "closer"
  /\ cpc' = "joining"
  /\ UNCHANGED << cbuf, stop_event, user_stopped, unsaved_data,
                  saved_items_count, storage, disk, h_saved, h_save_calls >>
  /\ CloserFrame

\* the joins return (each after at most 5 s); the lock is released
CloserJoinEnd ==
  /\ cpc = "joining"
  /\ threads_lock' = "free"
  /\ cpc' = "flush"
  /\ UNCHANGED << cbuf, stop_event, user_stopped, unsaved_data,
                  saved_items_count, storage, disk, h_saved, h_save_calls >>
  /\ CloserFrame

\* "if getattr(self, 'unsaved_data', None): self.save_data()": save_data
\* entered, storage.save_items(self.unsaved_data) called with the list
CloserFlushBegin ==
  /\ cpc = "flush"
  /\ IF unsaved_data = << >>
     THEN cpc' = "close" /\ cbuf' = << >>
     ELSE cpc' = "saving" /\ cbuf' = unsaved_data
  /\ UNCHANGED << stop_event, user_stopped, unsaved_data, saved_items_count,
                  threads_lock, storage, disk, h_saved, h_save_calls >>
  /\ CloserFrame

\* save_items returns, then "self.saved_items_count += len(self.unsaved_data)"
\* and "self.unsaved_data = []".  save_items iterated the list it was given:
\* the records it held at the call, or also those the run thread appended
\* to the same list meanwhile.
CloserFlushEnd ==
  /\ cpc = "saving"
  /\ \E items \in {cbuf} \cup
                   (IF Len(cbuf) <= Len(unsaved_data)
                       /\ SubSeq(unsaved_data, 1, Len(cbuf)) = cbuf
                    THEN {unsaved_data} ELSE {}) :
        /\ storage' = SaveItems(storage, items)
        /\ h_saved' = h_saved \cup Range(items)
  /\ disk' = WorkbookSave(storage', disk, ~file_locked)
  /\ saved_items_count' = saved_items_count + Len(unsaved_data)
  /\ unsaved_data' = << >>
  /\ h_save_calls' = h_save_calls + 1
  /\ cbuf' = << >>
  /\ cpc' = "close"
  /\ UNCHANGED << stop_event, user_stopped, threads_lock >>
  /\ CloserFrame

\* "self.storage.close()" entered
CloserCloseBegin ==
  /\ cpc = "close"
  /\ cpc' = "closing"
  /\ UNCHANGED << cbuf, stop_event, user_stopped, unsaved_data,
                  saved_items_count, threads_lock, storage, disk, h_saved,
                  h_save_calls >>
  /\ CloserFrame

\* close() returns: metadata updated, workbook saved; the window is destroyed
CloserCloseEnd ==
  /\ cpc = "closing"
  /\ storage' = UpdateMetadata(storage)
  /\ disk' = WorkbookSave(storage', disk, ~file_locked)
  /\ cpc' = "exit"
  /\ UNCHANGED << cbuf, stop_event, user_stopped, unsaved_data,
                  saved_items_count, threads_lock, h_saved, h_save_calls >>
  /\ CloserFrame

CloserNext ==
  \/ CloserJoinStart
  \/ CloserJoinEnd
  \/ CloserFlushBegin
  \/ CloserFlushEnd
  \/ CloserCloseBegin
  \/ CloserCloseEnd

CloseNext ==
  \/ Next
  \/ OnClosing
  \/ CloserNext

CloseSpec == CloseInit /\ [][CloseNext]_vars

\* ------------------------- restart: the start button pressed after a run
\* run_scraping's finally enables the start button once cleanup() has
\* returned.  cleanup() joins each worker for at most five seconds and does
\* not join the manager thread, so "INICIAR PROCESSAMENTO" can be pressed
\* while threads of the run that ended are still alive; start_process then
\* clears the stop event they all read.  The behaviours here follow those
\* threads up to the moment the new run thread replaces the queues: the
\* steps of the second run thread are not taken.
RestartWorkers == 1

RestartInit ==
  InitWith(MaxInterval, MinBatch, NumTasks, RestartWorkers, RestartWorkers,
           NoDisk)

\* a later press of "INICIAR PROCESSAMENTO": the button is enabled
StartEarly ==
  /\ h_runs > 0 /\ h_runs < MaxRuns
  /\ dpc = "done"
  /\ StartProcessBody(Answers)

\* the run thread of the first run
FirstRun ==
  /\ h_runs = 1
  /\ (RunNext \/ DispException)

RestartNext ==
  \/ StartProcess
  \/ StartEarly
  \/ StopProcess
  \/ ManagerNext
  \/ WorkerNext
  \/ FirstRun

RestartSpec == RestartInit /\ [][RestartNext]_vars

\* --------------------------------- records: any record an Extractor gives
\* The run thread and the store fed with the records an Extractor may
\* return: data items with the id key set to a row number, or with no value
\* under the id key (row_num 0 stands for None, as in the tasks of
\* AtlasCopcoExcelInput.get_items, whose row_num the Extractor copies into
\* its record).  The store is open, the results are on results_queue, and no
\* worker is left.
AnyRecords ==
  { [row_num |-> n, attempt |-> k] :
      n \in {0} \cup RowIds(NumTasks), k \in 1 .. (MaxFails + 1) }

RecordsInit ==
  /\ save_interval = MaxInterval
  /\ login_batch_size = MinBatch
  /\ all_valid_tasks = InputTasks(NumTasks)
  /\ thread_cap = 0
  /\ input_hash = "h1"
  /\ num_workers_var = 0
  /\ stop_event = FALSE
  /\ tasks_queue = << >>
  /\ results_queue \in UNION { [1..n -> AnyRecords] : n \in 0..MaxRecords }
  /\ unsaved_data = << >>
  /\ saved_items_count = 0
  /\ worker_threads = << >>
  /\ threads_lock = "free"
  /\ storage = StorageOpen(NoDisk, "h1")
  /\ disk = NoDisk
  /\ file_locked = FALSE
  /\ save_raises = FALSE
  /\ workers = [w \in ThreadIds |-> NoWorker]
  /\ nthreads = 0
  /\ mpc = "done"
  /\ login_events = {}
  /\ dpc = "loop"
  /\ active_workers = 0
  /\ user_stopped = FALSE
  /\ response = "none"
  /\ cpc = "off"
  /\ cbuf = << >>
  /\ h_seeded = {}
  /\ h_disk_ids = {}
  /\ h_same_input = FALSE
  /\ h_loaded_ids = {}
  /\ h_pushed = Range(results_queue)
  /\ h_saved = {}
  /\ h_consumed = 0
  /\ h_save_calls = 0
  /\ h_fails = [t \in RowIds(NumTasks) |-> 0]
  /\ h_attempt = [t \in RowIds(NumTasks) |-> 0]
  /\ h_runs = 1

RecordsNext ==
  \/ StopProcess
  \/ DispLoopExit
  \/ DispGet
  \/ DispStatus
  \/ DispEmpty
  \/ DispEmptyCheck
  \/ DispCount
  \/ DispTarget
  \/ DispAfterLoop
  \/ CleanupSetStop
  \/ CleanupJoinStart
  \/ CleanupJoinEnd
  \/ CleanupFlush
  \/ CleanupClose

RecordsSpec == RecordsInit /\ [][RecordsNext]_vars

\* ------------------------------------------- pool: the targets 3, 1, 0
\* One run in which the user takes the Workers spinbox from 3 to 1 to 0.
\* login() returns a session or raises, extract returns a record.  Every
\* thread keeps running (weak fairness); the user's steps are not forced.
PoolInit ==
  InitWith(MaxInterval, DefaultBatch, NumTasks, MaxThreads, PoolFirstTarget,
           NoDisk)

PoolSetTarget ==
  \/ num_workers_var = PoolFirstTarget /\ SetTargetTo(PoolSecondTarget)
  \/ num_workers_var = PoolSecondTarget /\ SetTargetTo(0)

PoolWorker(w) ==
  \/ WorkerLoginOk(w)
  \/ WorkerLoginRaise(w)
  \/ WorkerExit(w)
  \/ WorkerGetTask(w)
  \/ WorkerExtractOk(w)

PoolNext ==
  \/ StartProcess
  \/ PoolSetTarget
  \/ StopProcess
  \/ ManagerNext
  \/ \E w \in ThreadIds : PoolWorker(w)
  \/ RunNext

PoolFairness ==
  /\ WF_vars(StartProcess)
  /\ WF_vars(ManagerNext)
  /\ WF_vars(RunNext)
  /\ \A w \in ThreadIds : WF_vars(PoolWorker(w))

PoolFairSpec == PoolInit /\ [][PoolNext]_vars /\ PoolFairness

\* --------------------------------- steady: the pool with nothing failing
\* The run of the pool specification in which every login() returns a
\* session and every extract returns a record.
SteadyWorker(w) ==
  \/ WorkerLoginOk(w)
  \/ WorkerExit(w)
  \/ WorkerGetTask(w)
  \/ WorkerExtractOk(w)

SteadyNext ==
  \/ StartProcess
  \/ PoolSetTarget
  \/ StopProcess
  \/ ManagerNext
  \/ \E w \in ThreadIds : SteadyWorker(w)
  \/ RunNext

SteadyFairness ==
  /\ WF_vars(StartProcess)
  /\ WF_vars(ManagerNext)
  /\ WF_vars(RunNext)
  /\ \A w \in ThreadIds : WF_vars(SteadyWorker(w))

SteadyFairSpec == PoolInit /\ [][SteadyNext]_vars /\ SteadyFairness

\* ------------------------------------- scenario: ten tasks, two persisted
\* The output file of an earlier run that persisted the first ScenarioDone
\* tasks of this input.
ScenarioDisk ==
  WorkbookSave(
    SaveItems(StorageOpen(NoDisk, "h1"),
              [i \in 1..ScenarioDone |-> Record(Task(FirstRow + i - 1), 1)]),
    NoDisk, TRUE)

ScenarioInit ==
  InitWith(ScenarioInterval, DefaultBatch, ScenarioTasks, ScenarioWorkers,
           ScenarioWorkers, ScenarioDisk)

\* the user answers "yes" to the continue dialog and then leaves the run alone
ScenarioStart == h_runs = 0 /\ dpc = "idle" /\ StartProcessBody({"yes"})

ScenarioWorker(w) ==
  \/ WorkerLoginOk(w)
  \/ WorkerGetTask(w)
  \/ WorkerExtractOk(w)

ScenarioNext ==
  \/ ScenarioStart
  \/ ManagerCheck
  \/ ManagerGrow
  \/ ManagerBatchDone
  \/ ManagerShrink
  \/ \E w \in ThreadIds : ScenarioWorker(w)
  \/ RunScrapingSeed
  \/ DispGet
  \/ DispStatus
  \/ DispEmpty
  \/ DispEmptyCheck
  \/ DispCount
  \/ DispTarget

ScenarioFairness ==
  /\ WF_vars(ScenarioStart)
  /\ WF_vars(ManagerCheck \/ ManagerGrow \/ ManagerBatchDone \/ ManagerShrink)
  /\ WF_vars(RunScrapingSeed \/ DispGet \/ DispStatus \/ DispEmpty
               \/ DispEmptyCheck \/ DispCount \/ DispTarget)
  /\ \A w \in ThreadIds : WF_vars(ScenarioWorker(w))

ScenarioFairSpec == ScenarioInit /\ [][ScenarioNext]_vars /\ ScenarioFairness

\* ------------------------------------------------------------------ claims
Running == dpc \notin {"idle", "seed"}
LiveWorkers == Cardinality(AliveSet)
InInitialLogin == { w \in ThreadIds : workers[w].pc = "login" }
InRelogin == { w \in ThreadIds : workers[w].pc = "relogin" }

\* C1: when shutdown has completed, ResultStream is empty and every record a
\* worker pushed onto it has been handed to save_items.
C1_NoRecordLeftBehind ==
  dpc = "done" => (results_queue = << >> /\ h_pushed \subseteq h_saved)

\* C2: a worker thread that has ended has fired its ready signal, whatever
\* login() did (returned a session, returned none, raised), so the manager's
\* batch wait is never left waiting for an ended worker.
C2_ReadyAlwaysFires ==
  \A w \in ThreadIds : workers[w].pc = "dead" => workers[w].login_event

\* C6: during a run every seeded task is in TaskQueue, held by a live worker,
\* or represented by a record (in ResultStream, in the pending buffer, or
\* persisted).
Holders(t) == { w \in AliveSet : workers[w].task = t }
HasRecord(t) ==
  \/ \E i \in DOMAIN results_queue : results_queue[i].row_num = t
  \/ \E i \in DOMAIN unsaved_data : unsaved_data[i].row_num = t
  \/ t \in DOMAIN storage.data_sheet
InTaskQueue(t) == \E i \in DOMAIN tasks_queue : tasks_queue[i].row_num = t
C6_EveryTaskAccounted ==
  Running =>
    \A t \in h_seeded :
      /\ Cardinality(Holders(t)) <= 1
      /\ InTaskQueue(t) \/ Holders(t) # {} \/ HasRecord(t)

\* C8 (as claimed): the workers inside login(), initial login or re-login,
\* are never more than the login batch size.
C8_AllLoginsThrottled ==
  Cardinality(InInitialLogin \cup InRelogin) <= login_batch_size

\* C8 (amended): the workers inside their initial login() are never more
\* than the login batch size, and they all belong to the batch the manager
\* is waiting for.
C8_InitialLoginsThrottled ==
  /\ Cardinality(InInitialLogin) <= login_batch_size
  /\ InInitialLogin \subseteq login_events
  /\ InInitialLogin # {} => threads_lock = "manager"

C8_Witness ==
  /\ Cardinality(InInitialLogin) = login_batch_size
  /\ InRelogin # {}

RetriedOk(t) == h_fails[t] = 1 /\ Record(Task(t), 2) \in h_pushed
C5_RetriedRecordPersisted ==
  (dpc = "done" /\ ~user_stopped) =>
    \A t \in h_seeded :
      RetriedOk(t) =>
        /\ Str(t) \in storage.processed_ids
        /\ t \in DOMAIN storage.data_sheet
        /\ storage.data_sheet[t] = Record(Task(t), 2)

\* C3 (as claimed): a task is seeded iff its id is not in the set loaded from
\* the output file, and no task whose id was loaded from the file is in the
\* task queue or in a worker's hands during the run.
InputIds == { all_valid_tasks[i].row_num : i \in DOMAIN all_valid_tasks }
Dispatched ==
  { t \in InputIds : InTaskQueue(t) \/ Holders(t) # {} }
KeptIds == IF response = "no" THEN {} ELSE h_loaded_ids
C4_NeverShrinks ==
  Running => h_disk_ids \subseteq storage.processed_ids

\* C4 (amended): when the file's stored hash is the input's hash and the user
\* did not answer "no", the id set during and after the run contains every
\* id the file held before the run, and so does the file once the store is
\* closed; within a run no step removes an id from the set.
C4_GrowsUnlessDeclined ==
  /\ [](Running /\ h_same_input /\ response # "no"
          => /\ h_disk_ids \subseteq storage.processed_ids
             /\ dpc = "done" => h_disk_ids \subseteq DiskIds(disk))
  /\ [][(Running /\ h_runs' = h_runs)
          => storage.processed_ids \subseteq storage'.processed_ids]_vars

C4_Witness ==
  /\ dpc = "done"
  /\ h_runs = 2
  /\ h_same_input
  /\ response = "yes"
  /\ h_disk_ids # {}
  /\ h_disk_ids # storage.processed_ids
  /\ h_disk_ids \subseteq DiskIds(disk)

\* C7: whenever the run is on, not stopped, and the target is v (3, 1 or 0),
\* the number of live workers eventually equals v, unless the target is
\* changed or the run is stopped first.
PoolTargets == {PoolFirstTarget, PoolSecondTarget, 0}
C7_PoolConverges ==
  \A v \in PoolTargets :
    (Running /\ ~stop_event /\ num_workers_var = v)
      ~> (LiveWorkers = v \/ num_workers_var # v \/ stop_event)

\* C10: in the scenario (ten tasks, the first two persisted, two workers,
\* flush threshold three, extract always succeeds) eight tasks are seeded
\* and eventually eight records are persisted, the id set holds all ten ids,
\* and save_items has been called at least three times.
C10_ScenarioCompletes ==
  <>( /\ Cardinality(h_seeded) = ScenarioTasks - ScenarioDone
      /\ Cardinality(h_saved) = ScenarioTasks - ScenarioDone
      /\ storage.processed_ids = { Str(t) : t \in InputIds }
      /\ h_save_calls >= 3 )

\* C11: however an extract call ends, the worker stays alive, and the step
\* either requeues the task (session failure) or puts a record keyed by the
\* task id on ResultStream (a result, or a hard-error record).
ExtractEnds(w) == workers[w].pc = "extract" /\ workers'[w].pc # "extract"
C11_ExtractErrorRecorded ==
  [][\A w \in ThreadIds :
       ExtractEnds(w) =>
         /\ workers'[w].pc # "dead"
         /\ \/ tasks_queue' = Append(tasks_queue, Task(workers[w].task))
            \/ /\ Len(results_queue') = Len(results_queue) + 1
               /\ results_queue'[Len(results_queue')].row_num = workers[w].task
               /\ tasks_queue' = tasks_queue]_vars

\* C12: a worker in recovery (between the requeue and the next session)
\* leaves recovery only to the extract loop, with a session or on a stop
\* signal; no re-login outcome ends the worker.
InRecovery(w) == workers[w].pc \in {"relogin_wait", "relogin"}
C12_RecoveryNeverEndsWorker ==
  [][\A w \in ThreadIds :
       (InRecovery(w) /\ workers'[w].pc \notin {"relogin_wait", "relogin"})
         => /\ workers'[w].pc = "loop"
            /\ workers'[w].driver \/ stop_event \/ Stopped(w)]_vars

\* C13: the step that takes the run thread out of the drain loop is taken
\* with the global stop set, or with TaskQueue empty, the target 0 and no
\* worker alive.
DrainPcs == {"loop", "status", "empty", "count", "target"}
C13_DrainEndsOnlyWhenIdle ==
  [][(dpc \in DrainPcs /\ dpc' = "afterLoop")
       => \/ stop_event
          \/ /\ tasks_queue = << >>
             /\ num_workers_var = 0
             /\ AliveSet = {}]_vars

\* C14 (as claimed): once every seeded task has been processed (a record of
\* it was put on ResultStream, TaskQueue is empty, no worker holds a task),
\* the run thread eventually leaves the drain loop.
AllProcessed ==
  /\ Running
  /\ h_seeded # {}
  /\ \A t \in h_seeded : \E r \in h_pushed : r.row_num = t
  /\ tasks_queue = << >>
  /\ \A w \in AliveSet : workers[w].task = 0
ShutdownStep(from, to) ==
  \/ from \in DrainPcs /\ to \in DrainPcs \cup {"afterLoop", "cleanup"}
  \/ from = "afterLoop" /\ to = "cleanup"
  \/ from = "cleanup" /\ to = "join"
  \/ from = "join" /\ to = "joining"
  \/ from = "joining" /\ to = "flush"
  \/ from = "flush" /\ to = "close"
  \/ from = "close" /\ to = "done"
C15_ShutdownInOrder ==
  /\ [](dpc \in {"join", "joining", "flush", "close", "done"} => stop_event)
  /\ [](dpc \in {"close", "done"} => unsaved_data = << >>)
  /\ [](dpc = "done" => DiskIds(disk) = storage.processed_ids)
  /\ [][(dpc' # dpc /\ dpc \notin {"idle", "seed"})
          => ShutdownStep(dpc, dpc')]_vars

C15_Witness ==
  /\ dpc = "done"
  /\ ~user_stopped
  /\ h_save_calls = 1
  /\ Cardinality(h_saved) = 1
  /\ Cardinality(h_saved) < save_interval
  /\ DiskIds(disk) = { Str(r.row_num) : r \in h_saved }

\* C16: once the global stop is set, shutdown completes: the run thread
\* reaches the end of cleanup with the store closed.
C16_ShutdownCompletes == stop_event ~> (dpc = "done")

\* C17: a save_items call that raises leaves the pending buffer as it was;
\* no record leaves the buffer except by a save_items call that returned;
\* the buffer is emptied only by such a call, which was given every record
\* of the buffer.
IsPrefix(a, b) == Len(a) <= Len(b) /\ SubSeq(b, 1, Len(a)) = a
C17_FailedSaveKeepsBuffer ==
  [][/\ (h_save_calls' # h_save_calls /\ save_raises)
          => /\ unsaved_data' # << >>
             /\ IsPrefix(unsaved_data, unsaved_data')
             /\ h_saved' = h_saved
     /\ \A i \in DOMAIN unsaved_data :
          \/ unsaved_data[i] \in Range(unsaved_data')
          \/ unsaved_data[i] \in h_saved'
     /\ (unsaved_data # << >> /\ unsaved_data' = << >>)
          => /\ ~save_raises
             /\ h_save_calls' = h_save_calls + 1]_vars

C17_Witness ==
  /\ h_consumed = save_interval
  /\ h_save_calls = 2
  /\ Cardinality(h_saved) = save_interval
  /\ unsaved_data = << >>

\* C18: every record given to a save_items call that returned is in the
\* output file, with its id in the file's id list and in the store's set.
C18_SavedIdsDurable ==
  \A r \in h_saved :
    /\ Str(r.row_num) \in storage.processed_ids
    /\ Str(r.row_num) \in DiskIds(disk)
    /\ r.row_num \in DOMAIN disk.rows

\* C19: the step that ends an extract with a session failure appends the
\* task to TaskQueue once, puts nothing on ResultStream and releases the
\* session; a worker calling login() again holds no session.
C19_SessionFailureRequeues ==
  /\ [][\A w \in ThreadIds :
          (workers[w].pc = "extract" /\ workers'[w].pc = "relogin_wait")
            => /\ tasks_queue' = Append(tasks_queue, Task(workers[w].task))
               /\ results_queue' = results_queue
               /\ h_pushed' = h_pushed
               /\ ~workers'[w].driver]_vars
  /\ [](\A w \in ThreadIds : InRecovery(w) => ~workers[w].driver)

C19_Witness ==
  \E w \in ThreadIds : \E t \in h_seeded :
    /\ workers[w].pc = "relogin"
    /\ ~workers[w].driver
    /\ h_fails[t] = 1
    /\ InTaskQueue(t)
    /\ \A r \in h_pushed : r.row_num # t

ShrinkStep ==
  /\ mpc = "reconcile"
  /\ mpc' = "loop"
  /\ Len(AliveThreads) > num_workers_var
NewestLive(n) ==
  { AliveThreads[i] : i \in (Len(AliveThreads) - n + 1) .. Len(AliveThreads) }
C21_ShrinkStopsNewest ==
  [][ShrinkStep =>
       LET n == Len(AliveThreads) - num_workers_var
       IN /\ Cardinality(NewestLive(n)) = n
          /\ Range(AliveThreads) = AliveSet
          /\ \A w \in NewestLive(n) : \A v \in AliveSet \ NewestLive(n) : v < w
          /\ \A w \in ThreadIds :
               /\ workers'[w].stop = (workers[w].stop \/ w \in NewestLive(n))
               /\ workers'[w].pc = workers[w].pc
          /\ threads_lock' = "free"]_vars

C21_Witness ==
  /\ mpc = "loop"
  /\ ~stop_event
  /\ num_workers_var = 1
  /\ AliveSet = {1, 2}
  /\ workers[2].stop
  /\ ~workers[1].stop

\* C22: a worker holds a session only between a login() that returned one
\* and the logout of that session: a worker that has ended, or that is in
\* or before a login() call, holds none; extract runs with a session; a
\* session is given up only at the worker's exit or in the handler of a
\* session failure, and taken only from a login() of the same worker.
NoSessionPcs == {"unborn", "dead", "login", "relogin_wait", "relogin"}
C22_SessionReleased ==
  /\ [](\A w \in ThreadIds :
          /\ workers[w].pc \in NoSessionPcs => ~workers[w].driver
          /\ workers[w].pc = "extract" => workers[w].driver)
  /\ [][\A w \in ThreadIds :
          /\ (workers[w].driver /\ ~workers'[w].driver)
               => /\ workers[w].pc \in {"loop", "extract"}
                  /\ workers'[w].pc \in {"dead", "relogin_wait"}
          /\ (~workers[w].driver /\ workers'[w].driver)
               => /\ workers[w].pc \in {"login", "relogin"}
                  /\ workers'[w].pc = "loop"]_vars

C22_Witness ==
  /\ nthreads = 1
  /\ workers[1].pc = "dead"
  /\ ~workers[1].driver
  /\ \E t \in h_seeded : h_fails[t] = 1 /\ Record(Task(t), 2) \in h_pushed

\* C23: a worker that holds a task can always finish its extract with a
\* push, whatever the stop signals; every return from extract to the loop
\* has pushed the record of the task; and a worker ends on a stop signal
\* only from the head of its loop (between tasks), or leaves the re-login
\* loop on one.
C23_NoPreemption ==
  /\ [](\A w \in ThreadIds :
          workers[w].pc = "extract" => ENABLED WorkerExtractOk(w))
  /\ [][\A w \in ThreadIds :
          /\ (workers[w].pc = "extract" /\ workers'[w].pc = "loop")
               => /\ results_queue' =
                       Append(results_queue,
                              Record(Task(workers[w].task),
                                     h_attempt[workers[w].task]))
                  /\ tasks_queue' = tasks_queue
          /\ (workers[w].pc = "loop" /\ workers'[w].pc = "dead")
               => (stop_event \/ Stopped(w))
          /\ (workers[w].pc = "relogin_wait" /\ workers'[w].pc = "loop")
               => (stop_event \/ Stopped(w))
          /\ (workers[w].pc = "loop" /\ workers'[w].pc = "extract")
               => ~(stop_event \/ Stopped(w))]_vars

C23_Witness ==
  \E w \in ThreadIds :
    /\ workers[w].pc = "extract"
    /\ workers[w].task # 0
    /\ Stopped(w)
    /\ stop_event

\* C24: an exception in the drain loop leads into cleanup with the pending
\* buffer as it was; the buffer stays untouched through the stop and join
\* steps; the flush step passes a non-empty buffer to save_items (and, when
\* save_items returns, every record of it is saved and the buffer emptied);
\* the store is closed only after that step.
C24_ExceptionStillFlushes ==
  /\ [][(dpc \in DrainPcs /\ dpc' \notin DrainPcs \cup {"afterLoop"})
          => (dpc' = "cleanup" /\ unsaved_data' = unsaved_data)]_vars
  /\ [][(dpc = "cleanup" \/ dpc = "join" \/ dpc = "joining")
          => /\ unsaved_data' = unsaved_data
             /\ (dpc' # dpc => ShutdownStep(dpc, dpc'))]_vars
  /\ [][(dpc = "flush" /\ dpc' # dpc)
          => /\ dpc' = "close"
             /\ (unsaved_data # << >>
                   => h_save_calls' = h_save_calls + 1)
             /\ ((unsaved_data # << >> /\ ~save_raises)
                   => (/\ Range(unsaved_data) \subseteq h_saved'
                       /\ unsaved_data' = << >>))]_vars
  /\ [][(dpc' = "done" /\ dpc # "done") => dpc = "close"]_vars

C24_Witness ==
  /\ dpc = "done"
  /\ ~user_stopped
  /\ nthreads = 1
  /\ IsAlive(1)
  /\ h_save_calls = 1
  /\ Cardinality(h_saved) = 1
  /\ unsaved_data = << >>
  /\ DiskIds(disk) = { Str(r.row_num) : r \in h_saved }

\* C25: every record given to a save_items call that returned has its id in
\* the store's id set and a row in the store's sheet: no record of a
\* flushed buffer is skipped.
C25_FlushedRecordsStored ==
  \A r \in h_saved :
    /\ Str(r.row_num) \in storage.processed_ids
    /\ r.row_num \in DOMAIN storage.data_sheet

\* C26: in every store the run reaches, saving a record a second time
\* changes nothing, saving two records of one id in one call or in two
\* calls gives the same store, whose row for the id is the later record and
\* whose id list names the id once; and every flush of the run leaves, for
\* each id of the flushed buffer, the last record of that id in the buffer.
IdCount(ids_str, id) ==
  Cardinality({ i \in DOMAIN Split(ids_str) : Split(ids_str)[i] = id })
LastOf(buf, row) ==
  buf[CHOOSE i \in DOMAIN buf :
        /\ buf[i].row_num = row
        /\ \A j \in DOMAIN buf : buf[j].row_num = row => j <= i]
FlushedBuffer ==
  IF dpc = "loop" THEN Append(unsaved_data, Head(results_queue))
  ELSE unsaved_data
C26_LastWriteWins ==
  /\ [](\A r1 \in AnyRecords :
          LET once == SaveItems(storage, << r1 >>)
          IN /\ SaveItems(once, << r1 >>) = once
             /\ \A r2 \in AnyRecords :
                  (r1.row_num = r2.row_num /\ r1.row_num # 0)
                    => LET both == SaveItems(storage, << r1, r2 >>)
                       IN /\ both = SaveItems(once, << r2 >>)
                          /\ both.data_sheet[r2.row_num] = r2
                          /\ IdCount(both.meta.ids_str, Str(r2.row_num)) = 1)
  /\ [][h_save_calls' # h_save_calls
          => \A r \in Range(FlushedBuffer) :
               r.row_num # 0
                 => storage'.data_sheet[r.row_num]
                      = LastOf(FlushedBuffer, r.row_num)]_vars

C26_Witness ==
  \E t \in RowIds(NumTasks) :
    /\ h_save_calls = 2
    /\ Record(Task(t), 1) \in h_saved
    /\ Record(Task(t), 2) \in h_saved
    /\ storage.data_sheet[t] = Record(Task(t), 2)
    /\ IdCount(storage.meta.ids_str, Str(t)) = 1
    /\ disk.exists /\ disk.rows[t] = Record(Task(t), 2)

\* C27: while one thread is inside save_data or storage.close(), no other
\* thread touches the pending buffer, the store or the output file.
C27_SingleFlusher ==
  [][((cpc = "saving" \/ cpc = "closing") /\ cpc' = cpc)
       => /\ unsaved_data' = unsaved_data
          /\ storage' = storage
          /\ disk' = disk]_vars

\* C28: at most one thread is inside a section that holds threads_lock, the
\* lock names that thread, and every step that reads or changes
\* worker_threads (the manager's reconcile and stop-all, the run thread's
\* two counts, the joins of either cleanup) is taken with the lock free for
\* it; worker_threads changes only in a reconcile step of the manager.
LockHolders ==
  (IF mpc = "wait" THEN {"manager"} ELSE {})
    \cup (IF dpc = "joining" THEN {"cleanup"} ELSE {})
    \cup (IF cpc = "joining" THEN {"closer"} ELSE {})
TakesPoolLock ==
  \/ mpc = "reconcile" /\ mpc' # mpc
  \/ mpc = "stopall" /\ mpc' # mpc
  \/ dpc = "status" /\ dpc' = "loop"
  \/ dpc = "count" /\ dpc' # dpc
  \/ dpc = "join" /\ dpc' # dpc
  \/ cpc = "cleanup" /\ cpc' # cpc
C28_PoolLock ==
  /\ [](/\ Cardinality(LockHolders) <= 1
        /\ threads_lock = "free" <=> LockHolders = {}
        /\ threads_lock # "free" => LockHolders = {threads_lock})
  /\ [][/\ TakesPoolLock => threads_lock = "free"
        /\ worker_threads' # worker_threads
             => (mpc = "reconcile" /\ threads_lock = "free")]_vars

C28_Witness ==
  /\ threads_lock = "manager"
  /\ mpc = "wait"
  /\ dpc = "join"
  /\ cpc = "cleanup"

\* C29: a step that raises the stop flag of some worker changes nothing else
\* of any worker (session, position, task, ready signal) and leaves the
\* global stop signal as it was; and a worker that has entered its loop ends
\* only with its own flag or the global stop signal set.
InLoop(w) == workers[w].pc \in {"loop", "extract", "relogin_wait", "relogin"}
StopFlagFrame ==
  (\E w \in ThreadIds : ~workers[w].stop /\ workers'[w].stop)
    => /\ stop_event' = stop_event
       /\ \A v \in ThreadIds :
            workers'[v] = [workers[v] EXCEPT !.stop = workers'[v].stop]
       /\ \A v \in ThreadIds :
            workers'[v].stop # workers[v].stop => IsAlive(v)
ExitOnlyOnSignal ==
  \A w \in ThreadIds :
    (InLoop(w) /\ workers'[w].pc = "dead") => (stop_event \/ Stopped(w))
C29_StopFlagIndependent == [][StopFlagFrame /\ ExitOnlyOnSignal]_vars

\* C30: a worker at the head of its loop with TaskQueue empty and no stop
\* signal set stays there with its session; a worker that has entered its
\* loop ends only with its own flag or the global stop signal set, or from
\* inside extract or a re-login (an exception of the call).
C30_EmptyQueueKeepsWorker ==
  [][\A w \in ThreadIds :
       /\ (/\ workers[w].pc = "loop"
           /\ tasks_queue = << >>
           /\ ~stop_event
           /\ ~Stopped(w))
            => /\ workers'[w].pc = "loop"
               /\ workers'[w].driver = workers[w].driver
       /\ (InLoop(w) /\ workers'[w].pc = "dead")
            => \/ stop_event
               \/ Stopped(w)
               \/ workers[w].pc = "extract"
               \/ workers[w].pc = "relogin"]_vars

C30_Witness ==
  \E w \in ThreadIds :
    /\ workers[w].pc = "loop"
    /\ workers[w].driver
    /\ ~Stopped(w)
    /\ ~stop_event
    /\ tasks_queue = << >>
    /\ results_queue = << >>
    /\ h_consumed = NumTasks
    /\ dpc = "target"

\* C31: a worker that is extracting owns a live session: the login or the
\* re-login before it returned one, and it has not been logged out since.
C31_ExtractOwnsSession ==
  \A w \in ThreadIds : workers[w].pc = "extract" => workers[w].driver

\* C32: while the manager waits at the batch-login barrier, a record on the
\* results queue does not find the run thread held up: the run thread is
\* not waiting for the pool lock of its status line, which the manager
\* holds until the batch has finished.
C32_DrainDuringBarrier ==
  (mpc = "wait" /\ results_queue # << >>) => dpc # "status"

\* C33: a save_items call that raises changes nothing: the processed ids and
\* the rows of the data sheet are after the call what they were before it.
C33_FailedSaveIsAtomic ==
  [][(h_save_calls' # h_save_calls /\ save_raises)
       => /\ storage'.processed_ids = storage.processed_ids
          /\ storage'.data_sheet = storage.data_sheet]_vars

\* C34: once a run has ended and its store is closed, a store opened on the
\* written file with the same input hash holds exactly the ids the closed
\* store held (the empty set included), and one opened with another input
\* hash holds none; the next press of start loads exactly that.
ClosedIds == storage.processed_ids
C34_CheckpointRoundTrip ==
  /\ []((dpc = "done" /\ disk.exists)
          => /\ StorageOpen(disk, storage.input_file_hash).processed_ids
                  = ClosedIds
             /\ \A h \in InputHashes \ {storage.input_file_hash} :
                  StorageOpen(disk, h).processed_ids = {})
  /\ [][(h_runs > 0 /\ h_runs' = h_runs + 1)
          => h_loaded_ids' = IF input_hash = storage.input_file_hash
                             THEN ClosedIds ELSE {}]_vars

C34_Witness ==
  /\ h_runs = 2
  /\ h_same_input
  /\ h_loaded_ids = { Str(t) : t \in RowIds(NumTasks) }

\* C35: when a new run is started after an earlier one, every thread of the
\* earlier run has ended: its manager loop is over and none of its workers
\* is alive.
C35_RestartAfterThreadsEnded ==
  [][(h_runs > 0 /\ h_runs' = h_runs + 1)
       => (mpc = "done" /\ AliveSet = {})]_vars

\* C36: the status shown when a run ends tells the two endings apart: it is
\* "Interrompido" exactly when the user asked for a stop, and "Concluído"
\* otherwise.  The status is computed from the stop event as cleanup() has
\* left it, at the step that ends the run thread.
C36_FinalStatusTellsEnding ==
  [][(dpc = "close" /\ dpc' = "done")
       => /\ (FinalStatus(stop_event') = "Interrompido") <=> user_stopped'
          /\ (FinalStatus(stop_event') = "Concluído") <=> ~user_stopped']_vars
====
